---- MODULE Spec2Model ----
(***************************************************************************)
(* Model of the RTK rover dashboard backend (position state store, mark    *)
(* registry, broadcast hub).  The server is a single-threaded Node.js      *)
(* process: every HTTP handler and every WebSocket callback runs to        *)
(* completion, so each one is one action.                                  *)
(***************************************************************************)
EXTENDS Integers, Sequences, FiniteSets, TLC

(***************************************************************************)
(* Bounds of the model.                                                    *)
(***************************************************************************)
MaxClients == 2
MaxCounter == 2
MaxTime == 1
MaxFailures == 1

(***************************************************************************)
(* JavaScript values.  A value carries its type tag, so that null,         *)
(* undefined, numbers and strings can be told apart and compared.          *)
(***************************************************************************)
Num(x) == [t |-> "number", n |-> x, s |-> ""]
Str(x) == [t |-> "string", n |-> 0, s |-> x]
Null == [t |-> "null", n |-> 0, s |-> ""]
Undef == [t |-> "undefined", n |-> 0, s |-> ""]
NaN == [t |-> "number", n |-> 0, s |-> "NaN"]

IsNumber(v) == v.t = "number" /\ v.s = ""

\* ToBoolean: undefined, null, 0, NaN and "" are falsy.
Truthy(v) ==
  CASE v.t = "number" -> v.s = "" /\ v.n # 0
    [] v.t = "string" -> v.s # ""
    [] OTHER -> FALSE

\* a || b
OrElse(a, b) == IF Truthy(a) THEN a ELSE b

\* String(v) for the values the handlers stringify.
JSString(v) ==
  CASE v.t = "string" -> v.s
    [] v.t = "null" -> "null"
    [] v.t = "undefined" -> "undefined"
    [] v.s = "NaN" -> "NaN"
    [] OTHER -> ToString(v.n)

\* s.padStart(2, '0')
PadStart2(s) == IF Len(s) = 0 THEN "00" ELSE IF Len(s) = 1 THEN "0" \o s ELSE s

\* new Date().toISOString() at clock value t
ISOString(t) == Str("T" \o ToString(t) \o "Z")

\* JSON.stringify of an object: properties whose value is undefined are
\* omitted, null is kept.
JSONStringify(obj) ==
  [f \in {g \in DOMAIN obj : obj[g] # Undef} |-> obj[f]]


\* (x).toFixed(1) for the non-negative quotient x = numer / denom: the
\* decimal with one fraction digit nearest to x (the larger one when x lies
\* exactly half way, which no input used here produces).
ToFixed1(numer, denom) ==
  LET tenths == (20 * numer + denom) \div (2 * denom)
  IN  Str(ToString(tenths \div 10) \o "." \o ToString(tenths % 10))

(***************************************************************************)
(* Position state store.                                                   *)
(***************************************************************************)
StateFields ==
  {"latitude", "longitude", "altitude", "h_acc", "v_acc", "fix_type",
   "carr_soln", "num_sv", "rtcm_bytes", "fixed_count", "float_count",
   "fixed_rate", "battery_pct", "firmware_version", "timestamp",
   "last_update"}

\* The fields of the request body that are copied into the state as they are.
CopiedFields ==
  {"latitude", "longitude", "altitude", "h_acc", "v_acc", "fix_type",
   "carr_soln", "num_sv", "rtcm_bytes", "fixed_count", "float_count",
   "battery_pct", "firmware_version"}

\* The numeric ones among them.
NumericFields == CopiedFields \ {"firmware_version"}

InitialRoverState == [f \in StateFields |-> Null]

\* Variant: the float count is taken for the numerator.
FixedRate_ofFloat(fixed_count, float_count) ==
  LET total == OrElse(fixed_count, Num(0)).n + OrElse(float_count, Num(0)).n
  IN  IF total > 0
        THEN CASE float_count = Undef -> Str("NaN")
               [] float_count = Null -> ToFixed1(0, total)
               [] OTHER -> ToFixed1(100 * float_count.n, total)
        ELSE Num(0)

\* const total = (fixed_count || 0) + (float_count || 0);
\* const fixed_rate = total > 0 ? (100.0 * fixed_count / total).toFixed(1) : 0;
FixedRate(fixed_count, float_count) ==
  LET total == OrElse(fixed_count, Num(0)).n + OrElse(float_count, Num(0)).n
  IN  IF total > 0
        THEN CASE fixed_count = Undef -> Str("NaN")
               [] fixed_count = Null -> ToFixed1(0, total)
               [] OTHER -> ToFixed1(100 * fixed_count.n, total)
        ELSE Num(0)

\* `${String(hour).padStart(2, '0')}:${...min...}:${...sec...} UTC`
Timestamp(hour, min, sec) ==
  Str(PadStart2(JSString(hour)) \o ":" \o PadStart2(JSString(min)) \o ":"
      \o PadStart2(JSString(sec)) \o " UTC")

\* Variant: the new record is merged into the old one, so a field that is
\* absent from the request keeps the value of the earlier fix.
NewRoverState_merge(old, body, t) ==
  [f \in StateFields |->
     CASE f = "fixed_rate" -> FixedRate(body.fixed_count, body.float_count)
       [] f = "timestamp" -> Timestamp(body.hour, body.min, body.sec)
       [] f = "last_update" -> ISOString(t)
       [] OTHER -> IF body[f] = Undef THEN old[f] ELSE body[f]]

\* Variant: numeric fields are defaulted with || 0.
NewRoverState_zero(old, body, t) ==
  [f \in StateFields |->
     CASE f = "fixed_rate" -> FixedRate(body.fixed_count, body.float_count)
       [] f = "timestamp" -> Timestamp(body.hour, body.min, body.sec)
       [] f = "last_update" -> ISOString(t)
       [] f = "firmware_version" -> body[f]
       [] OTHER -> OrElse(body[f], Num(0))]

\* roverState = { latitude, ..., fixed_rate, ..., timestamp, last_update }
NewRoverState(old, body, t) ==
  [f \in StateFields |->
     CASE f = "fixed_rate" -> FixedRate(body.fixed_count, body.float_count)
       [] f = "timestamp" -> Timestamp(body.hour, body.min, body.sec)
       [] f = "last_update" -> ISOString(t)
       [] OTHER -> body[f]]

\* latitude?.toFixed(7) and longitude?.toFixed(7) in the log line throw a
\* TypeError for a value that is neither nullish nor a number.
PositionLogThrows(body) ==
  \E f \in {"latitude", "longitude"} :
     body[f] # Null /\ body[f] # Undef /\ ~IsNumber(body[f])

(***************************************************************************)
(* Request bodies of POST /api/position used as inputs.                    *)
(***************************************************************************)
MkFix(lat, lon, alt, hacc, carr, fixed, float, batt, hour) ==
  [latitude |-> lat, longitude |-> lon, altitude |-> alt, h_acc |-> hacc,
   v_acc |-> Num(12), fix_type |-> Num(3), carr_soln |-> carr,
   num_sv |-> Num(26), rtcm_bytes |-> Num(0), fixed_count |-> fixed,
   float_count |-> float, battery_pct |-> batt,
   firmware_version |-> Str("1.0.0"), hour |-> hour, min |-> Num(0),
   sec |-> Num(0)]

Fixes ==
  { MkFix(Num(450), Num(-1220), Num(130), Num(14), Num(2), Num(10), Num(0),
          Num(95), Num(1)),
    MkFix(Num(451), Num(-1220), Num(0), Num(0), Num(2), Num(200), Num(5),
          Num(0), Num(2)),
    MkFix(Null, Null, Null, Null, Num(0), Null, Null, Null, Num(3)),
    MkFix(Undef, Undef, Undef, Undef, Num(1), Undef, Num(3), Undef, Num(0)),
    MkFix(Num(450), Num(-1221), Null, Undef, Num(1), Num(1), Num(2),
          Num(50), Num(0)),
    MkFix(Num(451), Num(-1221), Num(130), Num(14), Num(0), Num(0), Num(0),
          Num(95), Num(4)) }


(***************************************************************************)
(* Mark registry and its persisted copy (marks.json).                      *)
(***************************************************************************)
NoFile == [state |-> "absent", marks |-> <<>>, markCounter |-> 0]
CorruptFile == [state |-> "corrupt", marks |-> <<>>, markCounter |-> 0]
Snapshot(m, counter) == [state |-> "written", marks |-> m, markCounter |-> counter]

\* The ways fs.writeFileSync can end: the file holds the new content, the
\* call throws and the file is as before, or it throws after truncating it.
WriteOutcomes == {"ok", "failed", "torn"}

\* Variant: the write is skipped, the file stays as it was.
saveMarks_stale(file, m, counter, outcome) == file

\* saveMarks(): writes { marks, markCounter }; a failure is caught and logged.
saveMarks(file, m, counter, outcome) ==
  CASE outcome = "ok" -> Snapshot(m, counter)
    [] outcome = "failed" -> file
    [] OTHER -> CorruptFile

\* Variant: the collection is restored and the counter starts at 0 again.
loadMarks_counterReset(file) ==
  IF file.state = "written"
    THEN [marks |-> file.marks, markCounter |-> 0]
    ELSE [marks |-> <<>>, markCounter |-> 0]

\* loadMarks() on a fresh process (marks = [], markCounter = 0): reads the
\* file if it exists; a parse error is caught and leaves the empty registry.
loadMarks(file) ==
  IF file.state = "written"
    THEN [marks |-> file.marks, markCounter |-> file.markCounter]
    ELSE [marks |-> <<>>, markCounter |-> 0]

\* Request bodies of POST /api/marks used as inputs.
MkBody(lat, lon, hacc, label) ==
  [latitude |-> lat, longitude |-> lon, h_acc |-> hacc, label |-> label]

MarkBodies ==
  { MkBody(Num(451), Num(-1221), Undef, Undef),
    MkBody(Num(451), Num(-1221), Num(14), Str("BENCH_A")),
    MkBody(Undef, Num(-1221), Num(14), Undef),
    MkBody(Num(451), Undef, Undef, Str("BENCH_A")),
    MkBody(Null, Num(-1221), Undef, Undef) }

\* Labels supplied to PATCH /api/marks/:id (req.body.label).
UpdateLabels == {Undef, Str("BENCH_B")}

\* Variant: the id is taken from the size of the collection.
NextMarkId_length(m, counter) == Len(m) + 1

\* const mark = { id: markCounter, label: label || `RM_${markCounter}`, ... }
\* built after markCounter++.
NextMarkId(m, counter) == counter + 1

\* Variant: the default label is built before the counter is incremented.
NewMark_labelBeforeIncrement(id, body, t) ==
  [id |-> id,
   label |-> OrElse(body.label, Str("RM_" \o ToString(id - 1))),
   latitude |-> body.latitude,
   longitude |-> body.longitude,
   h_acc |-> OrElse(body.h_acc, Null),
   timestamp |-> ISOString(t),
   created_at |-> t]

NewMark(id, body, t) ==
  [id |-> id,
   label |-> OrElse(body.label, Str("RM_" \o ToString(id))),
   latitude |-> body.latitude,
   longitude |-> body.longitude,
   h_acc |-> OrElse(body.h_acc, Null),
   timestamp |-> ISOString(t),
   created_at |-> t]

\* latitude.toFixed(9) and longitude.toFixed(9) in the log line after
\* saveMarks() throw a TypeError for a value that is not a number.
MarkLogThrows(body) ==
  ~IsNumber(body.latitude) \/ ~IsNumber(body.longitude)

\* Variant: the id is used as a position in the array.
FindIndex_byPosition(m, id) == IF id <= Len(m) THEN id ELSE 0

\* marks.findIndex(m => m.id === id), 0 standing for -1
FindIndex(m, id) ==
  IF \E i \in 1..Len(m) : m[i].id = id
    THEN CHOOSE i \in 1..Len(m) : m[i].id = id /\ \A j \in 1..(i - 1) : m[j].id # id
    ELSE 0

\* marks.splice(index, 1)
Splice(m, index) == [i \in 1..(Len(m) - 1) |-> IF i < index THEN m[i] ELSE m[i + 1]]

\* Variant: the renamed mark is taken out and pushed again at the end.
SetLabel_reinsert(m, index, label) ==
  IF Truthy(label)
    THEN Append(Splice(m, index), [m[index] EXCEPT !.label = label])
    ELSE m

\* if (req.body.label) mark.label = req.body.label, on the mark found
SetLabel(m, index, label) ==
  IF Truthy(label) THEN [m EXCEPT ![index].label = label] ELSE m


(***************************************************************************)
(* Broadcast hub.                                                          *)
(***************************************************************************)
Conn == 1..MaxClients

\* WebSocket.readyState
OPEN == 1
CLOSING == 2
CLOSED == 3

PositionMessage(state) == [type |-> "position", data |-> JSONStringify(state)]
MarksMessage(m) == [type |-> "marks", data |-> m]
MarkEvent(action, data) == [type |-> "mark", action |-> action, data |-> data]
ClearEvent == [type |-> "mark", action |-> "clear"]

Nothing == [c \in Conn |-> <<>>]

\* Variant: the readyState of the socket is not looked at.
broadcast_anyState(cl, rs, message) ==
  [c \in Conn |-> IF c \in cl THEN <<message>> ELSE <<>>]

\* clients.forEach(client => { if (client.readyState === 1) client.send(data) })
broadcast(cl, rs, message) ==
  [c \in Conn |-> IF c \in cl /\ rs[c] = OPEN THEN <<message>> ELSE <<>>]

\* client.send(data) on an OPEN socket hands the frame to the transport.  When
\* the transport fails, the frame is lost and the error stays with that
\* socket: send() returns normally.  `failing` are the sockets whose send
\* fails during one broadcast.
\* Variant: the failure is thrown out of forEach, ending the broadcast.
Delivered_abort(deliveries, failing) ==
  [c \in Conn |-> IF \E f \in failing : f <= c THEN <<>> ELSE deliveries[c]]

Delivered(deliveries, failing) ==
  [c \in Conn |-> IF c \in failing THEN <<>> ELSE deliveries[c]]

\* What the connection handler sends to the new socket.
SendsPosition(state) == state.latitude # Null
SendsMarks(m) == Len(m) > 0

OnConnectMessages(state, m) ==
  (IF SendsPosition(state) THEN <<PositionMessage(state)>> ELSE <<>>)
  \o (IF SendsMarks(m) THEN <<MarksMessage(m)>> ELSE <<>>)

(***************************************************************************)
(* Dredge geometry (config.js).  Local coordinates are in hundredths of a  *)
(* foot, lengths in millimetres, latitudes and longitudes in millionths of *)
(* a degree, sines and cosines in thousandths.                             *)
(***************************************************************************)
Abs(x) == IF x < 0 THEN -x ELSE x

DREDGE_CONFIG ==
  [hull |-> [width |-> 3200, length |-> 4000],
   antenna |-> [x |-> 2200, y |-> 3000],
   nozzle |-> [offsetFromHull |-> 150, pivotY |-> 1000, length |-> 5000,
               diameter |-> 133, tipRadius |-> 200],
   tailings |-> [width |-> 2000, length |-> 600, offsetY |-> -600],
   hullPoints |-> << <<0, 0>>, <<3200, 0>>, <<3200, 4000>>, <<0, 4000>> >>]

\* Math.cos of an angle given in thousandths of a degree, for the angles the
\* inputs below use and the multiples of 15 degrees.
Cos1000(mdeg) ==
  LET a == Abs(mdeg) % 360000
      b == IF a > 180000 THEN 360000 - a ELSE a
  IN  CASE b = 0 -> 1000
        [] b = 15000 -> 966
        [] b = 30000 -> 866
        [] b = 33000 -> 839
        [] b = 45000 -> 707
        [] b = 60000 -> 500
        [] b = 64495 -> 431
        [] b = 75000 -> 259
        [] b = 90000 -> 0
        [] b = 105000 -> -259
        [] b = 120000 -> -500
        [] b = 135000 -> -707
        [] b = 150000 -> -866
        [] b = 165000 -> -966
        [] b = 180000 -> -1000

\* Math.sin(x) = Math.cos(x - 90 degrees)
Sin1000(mdeg) == Cos1000(mdeg - 90000)

\* feet * 0.3048
feetToMeters(feet) == (feet * 3048) \div 1000

\* (metres / earthRadius) * (180 / Math.PI) with earthRadius = 6371000:
\* 8993 millionths of a degree for each kilometre.
MetersToDegrees(mm) == (mm * 8993) \div 1000000

\* Variant: the local point is taken as an offset from the antenna already.
localToWorld_noAntennaOffset(localX, localY, antennaLat, antennaLon, heading) ==
  LET offsetXm == feetToMeters(localX)
      offsetYm == feetToMeters(localY)
      cosH == Cos1000(heading * 1000)
      sinH == Sin1000(heading * 1000)
      rotatedX == (offsetXm * cosH + offsetYm * sinH) \div 1000
      rotatedY == ((-offsetXm) * sinH + offsetYm * cosH) \div 1000
      dLat == MetersToDegrees(rotatedY)
      dLon == (MetersToDegrees(rotatedX) * 1000) \div Cos1000(antennaLat \div 1000)
  IN  <<antennaLon + dLon, antennaLat + dLat>>

localToWorld(localX, localY, antennaLat, antennaLon, heading) ==
  LET offsetX == localX - DREDGE_CONFIG.antenna.x
      offsetY == localY - DREDGE_CONFIG.antenna.y
      offsetXm == feetToMeters(offsetX)
      offsetYm == feetToMeters(offsetY)
      cosH == Cos1000(heading * 1000)
      sinH == Sin1000(heading * 1000)
      rotatedX == (offsetXm * cosH + offsetYm * sinH) \div 1000
      rotatedY == ((-offsetXm) * sinH + offsetYm * cosH) \div 1000
      dLat == MetersToDegrees(rotatedY)
      dLon == (MetersToDegrees(rotatedX) * 1000) \div Cos1000(antennaLat \div 1000)
  IN  <<antennaLon + dLon, antennaLat + dLat>>

getSuctionTipPosition(antennaLat, antennaLon, heading) ==
  LET nozzle == DREDGE_CONFIG.nozzle
      hull == DREDGE_CONFIG.hull
      tipX == hull.width + nozzle.offsetFromHull + (nozzle.diameter \div 2)
      tipY == nozzle.pivotY + nozzle.length
  IN  localToWorld(tipX, tipY, antennaLat, antennaLon, heading)

generateDredgeGeoJSON(antennaLat, antennaLon, heading) ==
  LET hullPoints == DREDGE_CONFIG.hullPoints
      worldCoords == [i \in 1..Len(hullPoints) |->
                        localToWorld(hullPoints[i][1], hullPoints[i][2],
                                     antennaLat, antennaLon, heading)]
  IN  [type |-> "Feature", name |-> "Hull",
       coordinates |-> Append(worldCoords, worldCoords[1])]

generateNozzleGeoJSON(antennaLat, antennaLon, heading) ==
  LET nozzle == DREDGE_CONFIG.nozzle
      hull == DREDGE_CONFIG.hull
      pipeCenterX == hull.width + nozzle.offsetFromHull + (nozzle.diameter \div 2)
      halfWidth == nozzle.diameter \div 2
      corners == << <<pipeCenterX - halfWidth, nozzle.pivotY>>,
                    <<pipeCenterX + halfWidth, nozzle.pivotY>>,
                    <<pipeCenterX + halfWidth, nozzle.pivotY + nozzle.length>>,
                    <<pipeCenterX - halfWidth, nozzle.pivotY + nozzle.length>> >>
      worldCoords == [i \in 1..4 |->
                        localToWorld(corners[i][1], corners[i][2], antennaLat,
                                     antennaLon, heading)]
  IN  [type |-> "Feature", name |-> "Nozzle",
       coordinates |-> Append(worldCoords, worldCoords[1])]

\* const points = 24
CirclePoints == 24

\* Variant: the loop stops before i = points.
generateSuctionTipGeoJSON_open(antennaLat, antennaLon, heading) ==
  LET nozzle == DREDGE_CONFIG.nozzle
      hull == DREDGE_CONFIG.hull
      tipCenterX == hull.width + nozzle.offsetFromHull + (nozzle.diameter \div 2)
      tipCenterY == nozzle.pivotY + nozzle.length
      coords == [k \in 1..CirclePoints |->
                   LET angle == ((k - 1) * 360000) \div CirclePoints
                       x == tipCenterX + (nozzle.tipRadius * Cos1000(angle)) \div 1000
                       y == tipCenterY + (nozzle.tipRadius * Sin1000(angle)) \div 1000
                   IN  localToWorld(x, y, antennaLat, antennaLon, heading)]
  IN  [type |-> "Feature", name |-> "Suction Tip", coordinates |-> coords]

\* for (let i = 0; i <= points; i++): vertex k of the ring is that of i = k - 1,
\* at the angle (i / points) * 2 * Math.PI.  For i = points the angle is the
\* double nearest to 2 pi: its cosine is 1 and its sine -2.4e-16, and the
\* sum tipCenterY + tipRadius * sine rounds to tipCenterY.
generateSuctionTipGeoJSON(antennaLat, antennaLon, heading) ==
  LET nozzle == DREDGE_CONFIG.nozzle
      hull == DREDGE_CONFIG.hull
      tipCenterX == hull.width + nozzle.offsetFromHull + (nozzle.diameter \div 2)
      tipCenterY == nozzle.pivotY + nozzle.length
      coords == [k \in 1..(CirclePoints + 1) |->
                   LET angle == ((k - 1) * 360000) \div CirclePoints
                       x == tipCenterX + (nozzle.tipRadius * Cos1000(angle)) \div 1000
                       y == tipCenterY + (nozzle.tipRadius * Sin1000(angle)) \div 1000
                   IN  localToWorld(x, y, antennaLat, antennaLon, heading)]
  IN  [type |-> "Feature", name |-> "Suction Tip", coordinates |-> coords]

generateTailingsZoneGeoJSON(antennaLat, antennaLon, heading) ==
  LET t == DREDGE_CONFIG.tailings
      hullCenterX == DREDGE_CONFIG.hull.width \div 2
      halfWidth == t.width \div 2
      corners == << <<hullCenterX - halfWidth, t.offsetY>>,
                    <<hullCenterX + halfWidth, t.offsetY>>,
                    <<hullCenterX + halfWidth, t.offsetY + t.length>>,
                    <<hullCenterX - halfWidth, t.offsetY + t.length>> >>
      worldCoords == [i \in 1..4 |->
                        localToWorld(corners[i][1], corners[i][2], antennaLat,
                                     antennaLon, heading)]
  IN  [type |-> "Feature", name |-> "Tailings Zone",
       coordinates |-> Append(worldCoords, worldCoords[1])]

\* Antenna fixes, headings and local points the transform is applied to.
Latitudes == {0, 45000000, 64495000, -33000000}
Longitudes == {-165402452, 0, 151000000}
Headings == {0, 45, 90, 180, 270}
LocalPoints ==
  { <<DREDGE_CONFIG.antenna.x, DREDGE_CONFIG.antenna.y>>,
    DREDGE_CONFIG.hullPoints[1],
    DREDGE_CONFIG.hullPoints[3] }

(***************************************************************************)
(* Dashboard (app.js): the trail recorder.                                 *)
(***************************************************************************)
MaxTrail == 2

\* this.currentPosition = null, this.testPosition = null
NoPosition == [latitude |-> Null, longitude |-> Null]

\* CONFIG.LOCATIONS.nome.center
NomePosition == [latitude |-> Num(64495336), longitude |-> Num(-165402452)]

\* this.minTrailDistance = 0.5, in millimetres
minTrailDistance == 500

\* For two points of one meridian sin(dLon / 2) is 0 and the haversine
\* distance is R * |dLat| * Math.PI / 180 with R = 6371000: 111195 mm for
\* each thousandth of a degree.  Every position used here is on the
\* meridian of NomePosition.
haversineDistance(lat1, lon1, lat2, lon2) ==
  CASE lon1 = lon2 -> (Abs(lat2 - lat1) * 111195) \div 1000

NoTrails == [piloting |-> <<>>, suction |-> <<>>, tailings |-> <<>>]

\* Variant: the position held before the event is the one recorded.
recordTrailPoint_prevPos(tr, cur, prevPos, hdg) ==
  IF cur = NoPosition
    THEN tr
    ELSE LET latitude == IF prevPos # NoPosition THEN prevPos.latitude.n
                                                 ELSE cur.latitude.n
             longitude == IF prevPos # NoPosition THEN prevPos.longitude.n
                                                  ELSE cur.longitude.n
         IN  IF /\ prevPos # NoPosition
                /\ haversineDistance(prevPos.latitude.n, prevPos.longitude.n,
                                     cur.latitude.n, cur.longitude.n) < minTrailDistance
               THEN tr
               ELSE [piloting |-> Append(tr.piloting, <<longitude, latitude>>),
                     suction |-> Append(tr.suction,
                                        getSuctionTipPosition(latitude, longitude, hdg)),
                     tailings |-> Append(tr.tailings,
                                         generateTailingsZoneGeoJSON(latitude, longitude, hdg))]

\* Variant: the tailings polygon is not recorded.
recordTrailPoint_noTailings(tr, cur, prevPos, hdg) ==
  IF cur = NoPosition
    THEN tr
    ELSE LET latitude == cur.latitude.n
             longitude == cur.longitude.n
         IN  IF /\ prevPos # NoPosition
                /\ haversineDistance(prevPos.latitude.n, prevPos.longitude.n,
                                     latitude, longitude) < minTrailDistance
               THEN tr
               ELSE [piloting |-> Append(tr.piloting, <<longitude, latitude>>),
                     suction |-> Append(tr.suction,
                                        getSuctionTipPosition(latitude, longitude, hdg)),
                     tailings |-> tr.tailings]

\* recordTrailPoint(prevPos): the trails it leaves, given this.trails,
\* this.currentPosition and this.heading
recordTrailPoint(tr, cur, prevPos, hdg) ==
  IF cur = NoPosition
    THEN tr
    ELSE LET latitude == cur.latitude.n
             longitude == cur.longitude.n
         IN  IF /\ prevPos # NoPosition
                /\ haversineDistance(prevPos.latitude.n, prevPos.longitude.n,
                                     latitude, longitude) < minTrailDistance
               THEN tr
               ELSE [piloting |-> Append(tr.piloting, <<longitude, latitude>>),
                     suction |-> Append(tr.suction,
                                        getSuctionTipPosition(latitude, longitude, hdg)),
                     tailings |-> Append(tr.tailings,
                                         generateTailingsZoneGeoJSON(latitude, longitude, hdg))]

\* localStorage item 'dredge-trails': absent, or JSON.stringify(this.trails),
\* which JSON.parse gives back as three arrays of the same numbers.
NoItem == [state |-> "absent", trails |-> NoTrails]
Item(tr) == [state |-> "stored", trails |-> tr]

\* loadTrailsFromStorage()
loadTrailsFromStorage(item) == IF item.state = "stored" THEN item.trails ELSE NoTrails

\* The delay of the timer of saveTrailsToStorage(): 5000 ms, in seconds
SaveInterval == 5

\* Variant: every call sets a timer.
saveTrailsToStorage_noGuard(timers, pending) == Append(timers, SaveInterval)

\* Variant: every call cancels the pending timer and sets a new one.
saveTrailsToStorage_restart(timers, pending) == <<SaveInterval>>

\* saveTrailsToStorage(): the pending timers it leaves, given whether
\* this._saveTimeout is set
saveTrailsToStorage(timers, pending) ==
  IF pending THEN timers ELSE Append(timers, SaveInterval)

\* CONFIG.STALE_TIMEOUT, the period of the stale checker and
\* CONFIG.RECONNECT_INTERVAL, in seconds
StaleTimeout == 10
PollPeriod == 1
ReconnectInterval == 3

\* Ages are counted up to this value.
MaxAge == StaleTimeout + PollPeriod + 1

Older(age) == IF age = -1 \/ age = MaxAge THEN age ELSE age + 1

\* this.lastUpdate && Date.now() - this.lastUpdate > CONFIG.STALE_TIMEOUT
IsStale(age) == age # -1 /\ age > StaleTimeout

\* Position events received by the dashboard: message.data of a 'position'
\* message.  The events carry a numeric or null altitude, so that the
\* toFixed calls of updateDashboard return.
MkData(lat, carr) ==
  [latitude |-> lat, longitude |-> NomePosition.longitude, carr_soln |-> Num(carr)]

TrailLatitudes == {64495000, 64495003, 64495005}

PositionEvents ==
  {MkData(Num(lat), carr) : lat \in TrailLatitudes, carr \in {1, 2}}
  \cup {MkData(Null, 2)}

\* Values of the heading slider used with the trail recorder.
TrailHeadings == {0, 90}

(***************************************************************************)
(* State.                                                                  *)
(***************************************************************************)
VARIABLES
  roverState,   \* the latest position record
  marks,        \* the mark collection, in creation order
  markCounter,  \* the id counter
  file,         \* marks.json
  clients,      \* the Set of connected sockets
  readyState,   \* readyState of each socket
  now,          \* the wall clock
  sent,         \* the messages the last step sent to each socket, in order
  lastOp,       \* the last step: its request, its response, what it saw
  createdIds,   \* ids assigned since the process started or the last clear
  failures,     \* how many writes of marks.json have failed so far
  everIngested, \* whether this process has handled a POST /api/position
  pose,         \* the antenna fix and heading given to the geometry functions
  world,        \* the last local point transformed and its world coordinates
  features,     \* the polygons of the dredge drawn for the pose
  currentPosition, \* dashboard: this.currentPosition
  heading,      \* dashboard: this.heading
  locationMode, \* dashboard: this.locationMode
  testPosition, \* dashboard: this.testPosition
  trails,       \* dashboard: this.trails
  storage,      \* the localStorage item 'dredge-trails'
  saveTimeout,  \* dashboard: whether this._saveTimeout is set
  saveTimers,   \* seconds left of each pending timer of saveTrailsToStorage
  unsavedAge,   \* seconds since the oldest trail point not yet stored, or -1
  sinceWrite,   \* seconds since the last write of the item, up to SaveInterval
  wsReady,      \* dashboard: state of this.ws
  statusLabel,  \* dashboard: label of the connection-status element
  lastUpdateAge, \* seconds since this.lastUpdate, or -1 while it is null
  fixAge,       \* seconds since the store's last_update, or -1 before any fix
  pollIn,       \* seconds until the next run of the stale checker
  reconnectTimers, \* seconds left of each pending reconnect timer
  inFlight,     \* position messages sent to this.ws and not yet received
  orphans,      \* sockets still connecting or open that this.ws no longer names
  lastSnapshot  \* what the last write of marks.json that succeeded wrote

vars ==
  <<roverState, marks, markCounter, file, clients, readyState, now, sent,
    lastOp, createdIds, failures, everIngested, pose, world, features,
    currentPosition, heading, locationMode, testPosition, trails, storage,
    saveTimeout, saveTimers, unsavedAge, sinceWrite, wsReady, statusLabel,
    lastUpdateAge, fixAge, pollIn, reconnectTimers, inFlight, orphans,
    lastSnapshot>>

registryVars == <<marks, markCounter, file, createdIds, failures, lastSnapshot>>
hubVars == <<clients, readyState>>
positionVars == <<roverState, everIngested>>
geometryVars == <<pose, world, features>>
saveVars == <<saveTimers, unsavedAge, sinceWrite>>
dashVars ==
  <<currentPosition, heading, locationMode, testPosition, trails, storage,
    saveTimeout, saveVars>>
statusVars ==
  <<wsReady, statusLabel, lastUpdateAge, fixAge, pollIn, reconnectTimers,
    inFlight, orphans>>
browserVars == <<geometryVars, dashVars, statusVars>>
serverVars ==
  <<roverState, marks, markCounter, file, clients, readyState, now, sent,
    createdIds, failures, everIngested, lastSnapshot>>

InitServer ==
  /\ roverState = InitialRoverState
  /\ marks = <<>>
  /\ markCounter = 0
  /\ file = NoFile
  /\ clients = {}
  /\ readyState = [c \in Conn |-> CLOSED]
  /\ now = 0
  /\ sent = Nothing
  /\ lastOp = [kind |-> "start"]
  /\ createdIds = <<>>
  /\ failures = 0
  /\ everIngested = FALSE
  /\ lastSnapshot = NoFile

NoWorld == [local |-> <<>>, coords |-> <<>>]

\* The map sources before the first updateDredgePosition()
NoFeatures == <<>>

\* The RoverDashboard constructor on a browser without stored trails.
InitDashboard ==
  /\ currentPosition = NoPosition
  /\ heading = 0
  /\ locationMode = "live"
  /\ testPosition = NoPosition
  /\ trails = NoTrails
  /\ storage = NoItem
  /\ saveTimeout = FALSE
  /\ saveTimers = <<>>
  /\ unsavedAge = -1
  /\ sinceWrite = SaveInterval

\* The page after init(): connectWebSocket() has created the socket and
\* startStaleChecker() has set its interval; no fix has been ingested.
InitStatus ==
  /\ wsReady = "connecting"
  /\ statusLabel = "initial"
  /\ lastUpdateAge = -1
  /\ fixAge = -1
  /\ pollIn = PollPeriod
  /\ reconnectTimers = <<>>
  /\ inFlight = 0
  /\ orphans = 0

Init ==
  /\ InitServer
  /\ InitDashboard
  /\ InitStatus
  /\ pose = [latitude |-> 0, longitude |-> 0, heading |-> 0]
  /\ world = NoWorld
  /\ features = NoFeatures

(***************************************************************************)
(* wss.on('connection'), the transport starting to close, ws.on('close').  *)
(***************************************************************************)
Connect(c) ==
  /\ c \notin clients
  /\ clients' = clients \cup {c}
  /\ readyState' = [readyState EXCEPT ![c] = OPEN]
  /\ sent' = [Nothing EXCEPT ![c] = OnConnectMessages(roverState, marks)]
  /\ lastOp' = [kind |-> "connect", conn |-> c]
  /\ UNCHANGED browserVars
  /\ UNCHANGED <<positionVars, registryVars, now>>

TransportClosing(c) ==
  /\ c \in clients
  /\ readyState[c] = OPEN
  /\ readyState' = [readyState EXCEPT ![c] = CLOSING]
  /\ sent' = Nothing
  /\ lastOp' = [kind |-> "closing", conn |-> c]
  /\ UNCHANGED browserVars
  /\ UNCHANGED <<positionVars, registryVars, now, clients>>

\* Variant: the close callback leaves the socket in the Set.
OnClose_noDelete(c) ==
  /\ c \in clients
  /\ readyState[c] # CLOSED
  /\ readyState' = [readyState EXCEPT ![c] = CLOSED]
  /\ sent' = Nothing
  /\ lastOp' = [kind |-> "close", conn |-> c]
  /\ UNCHANGED browserVars
  /\ UNCHANGED <<positionVars, registryVars, now, clients>>

OnClose(c) ==
  /\ c \in clients
  /\ clients' = clients \ {c}
  /\ readyState' = [readyState EXCEPT ![c] = CLOSED]
  /\ sent' = Nothing
  /\ lastOp' = [kind |-> "close", conn |-> c]
  /\ UNCHANGED browserVars
  /\ UNCHANGED <<positionVars, registryVars, now>>

(***************************************************************************)
(* POST /api/position                                                      *)
(***************************************************************************)
\* Variant: the record is broadcast before it is replaced.
IngestSending_broadcastFirst(body, failing) ==
  LET state == NewRoverState(roverState, body, now)
      throws == PositionLogThrows(body)
  IN  /\ failing \subseteq {c \in clients : readyState[c] = OPEN}
      /\ throws => failing = {}
      /\ roverState' = state
      /\ everIngested' = TRUE
      /\ sent' = IF throws THEN Nothing
                 ELSE Delivered(broadcast(clients, readyState,
                                          PositionMessage(roverState)), failing)
      /\ lastOp' = [kind |-> "ingest", body |-> body, at |-> now,
                    status |-> IF throws THEN 500 ELSE 200,
                    emitted |-> ~throws,
                    replaced |-> roverState,
                    failing |-> failing]
      /\ UNCHANGED browserVars
      /\ UNCHANGED <<registryVars, hubVars, now>>

IngestSending(body, failing) ==
  LET state == NewRoverState(roverState, body, now)
      throws == PositionLogThrows(body)
  IN  /\ failing \subseteq {c \in clients : readyState[c] = OPEN}
      /\ throws => failing = {}
      /\ roverState' = state
      /\ everIngested' = TRUE
      /\ sent' = IF throws THEN Nothing
                 ELSE Delivered(broadcast(clients, readyState,
                                          PositionMessage(state)), failing)
      /\ lastOp' = [kind |-> "ingest", body |-> body, at |-> now,
                    status |-> IF throws THEN 500 ELSE 200,
                    emitted |-> ~throws,
                    replaced |-> roverState,
                    failing |-> failing]
      /\ UNCHANGED browserVars
      /\ UNCHANGED <<registryVars, hubVars, now>>

\* The handler when every send succeeds.
Ingest(body) == IngestSending(body, {})

\* GET /api/position: res.json(roverState)
Current == JSONStringify(roverState)


(***************************************************************************)
(* Marks API.  Each handler mutates the registry, calls saveMarks(), logs, *)
(* broadcasts and answers, in that order.                                  *)
(***************************************************************************)
\* The content of the last write that succeeded.
SnapshotAfter(last, written, outcome) == IF outcome = "ok" THEN written ELSE last

\* A write of marks.json fails at most MaxFailures times.
MayEnd(outcome) == outcome = "ok" \/ failures < MaxFailures
FailuresAfter(outcome) == IF outcome = "ok" THEN failures ELSE failures + 1

\* Variant: only the latitude is validated.
MissingRequired_latitudeOnly(body) == body.latitude = Undef

\* if (latitude === undefined || longitude === undefined) return 400
MissingRequired(body) == body.latitude = Undef \/ body.longitude = Undef

\* POST /api/marks
CreateSending(body, outcome, failing) ==
  IF MissingRequired(body)
    THEN /\ outcome = "ok"
         /\ failing = {}
         /\ sent' = Nothing
         /\ lastOp' = [kind |-> "create", body |-> body, status |-> 400,
                       emitted |-> FALSE]
         /\ UNCHANGED browserVars
         /\ UNCHANGED <<positionVars, registryVars, hubVars, now>>
    ELSE LET id == NextMarkId(marks, markCounter)
             mark == NewMark(id, body, now)
             added == Append(marks, mark)
             written == saveMarks(file, added, id, outcome)
             throws == MarkLogThrows(body)
         IN  /\ markCounter < MaxCounter
             /\ MayEnd(outcome)
             /\ failing \subseteq {c \in clients : readyState[c] = OPEN}
             /\ throws => failing = {}
             /\ failures' = FailuresAfter(outcome)
             /\ markCounter' = id
             /\ marks' = added
             /\ file' = written
             /\ lastSnapshot' = SnapshotAfter(lastSnapshot, written, outcome)
             /\ createdIds' = Append(createdIds, id)
             /\ sent' = IF throws THEN Nothing
                        ELSE Delivered(broadcast(clients, readyState,
                                                 MarkEvent("create", mark)),
                                       failing)
             /\ lastOp' = [kind |-> "create", body |-> body,
                           status |-> IF throws THEN 500 ELSE 200,
                           emitted |-> ~throws, outcome |-> outcome,
                           fileAtEmit |-> written, mark |-> mark,
                           clearedBefore |-> IF lastOp.kind = "clear"
                                               THEN lastOp.deleted ELSE -1,
                           failing |-> failing]
             /\ UNCHANGED browserVars
             /\ UNCHANGED <<positionVars, hubVars, now>>

\* The handler when every send succeeds.
Create(body, outcome) == CreateSending(body, outcome, {})

\* DELETE /api/marks/:id
Delete(id, outcome) ==
  LET index == FindIndex(marks, id)
  IN  IF index = 0
        THEN /\ outcome = "ok"
             /\ sent' = Nothing
             /\ lastOp' = [kind |-> "delete", id |-> id, status |-> 404,
                           emitted |-> FALSE]
             /\ UNCHANGED browserVars
             /\ UNCHANGED <<positionVars, registryVars, hubVars, now>>
        ELSE LET rest == Splice(marks, index)
                 written == saveMarks(file, rest, markCounter, outcome)
             IN  /\ MayEnd(outcome)
                 /\ failures' = FailuresAfter(outcome)
                 /\ marks' = rest
                 /\ file' = written
                 /\ lastSnapshot' = SnapshotAfter(lastSnapshot, written, outcome)
                 /\ sent' = broadcast(clients, readyState,
                                      MarkEvent("delete", [id |-> id]))
                 /\ lastOp' = [kind |-> "delete", id |-> id, status |-> 200,
                               emitted |-> TRUE, outcome |-> outcome,
                               fileAtEmit |-> written]
                 /\ UNCHANGED browserVars
                 /\ UNCHANGED <<positionVars, hubVars, now, markCounter,
                                createdIds>>

\* PATCH /api/marks/:id
Update(id, label, outcome) ==
  LET index == FindIndex(marks, id)
  IN  IF index = 0
        THEN /\ outcome = "ok"
             /\ sent' = Nothing
             /\ lastOp' = [kind |-> "update", id |-> id, label |-> label,
                           status |-> 404, emitted |-> FALSE]
             /\ UNCHANGED browserVars
             /\ UNCHANGED <<positionVars, registryVars, hubVars, now>>
        ELSE LET renamed == SetLabel(marks, index, label)
                 written == saveMarks(file, renamed, markCounter, outcome)
             IN  /\ MayEnd(outcome)
                 /\ failures' = FailuresAfter(outcome)
                 /\ marks' = renamed
                 /\ file' = written
                 /\ lastSnapshot' = SnapshotAfter(lastSnapshot, written, outcome)
                 /\ sent' = broadcast(clients, readyState,
                                      MarkEvent("update", renamed[index]))
                 /\ lastOp' = [kind |-> "update", id |-> id, label |-> label,
                               status |-> 200, emitted |-> TRUE,
                               outcome |-> outcome, fileAtEmit |-> written,
                               mark |-> renamed[index]]
                 /\ UNCHANGED browserVars
                 /\ UNCHANGED <<positionVars, hubVars, now, markCounter,
                                createdIds>>

\* DELETE /api/marks
ClearedMarks(m) == <<>>
\* Variant: the counter survives the clear.
ClearedCounter_kept(counter) == counter
ClearedCounter(counter) == 0

ClearAll(outcome) ==
  LET count == Len(marks)
      written == saveMarks(file, ClearedMarks(marks), ClearedCounter(markCounter),
                           outcome)
  IN  /\ MayEnd(outcome)
      /\ failures' = FailuresAfter(outcome)
      /\ marks' = ClearedMarks(marks)
      /\ markCounter' = ClearedCounter(markCounter)
      /\ file' = written
      /\ lastSnapshot' = SnapshotAfter(lastSnapshot, written, outcome)
      /\ createdIds' = <<>>
      /\ sent' = broadcast(clients, readyState, ClearEvent)
      /\ lastOp' = [kind |-> "clear", status |-> 200, emitted |-> TRUE,
                    outcome |-> outcome, fileAtEmit |-> written,
                    deleted |-> count]
      /\ UNCHANGED browserVars
      /\ UNCHANGED <<positionVars, hubVars, now>>

(***************************************************************************)
(* The process is restarted (pm2 restart): all sockets are gone, the       *)
(* module-level state is initialised again and loadMarks() runs.           *)
(***************************************************************************)
Restart ==
  LET loaded == loadMarks(file)
  IN  /\ roverState' = InitialRoverState
      /\ everIngested' = FALSE
      /\ marks' = loaded.marks
      /\ markCounter' = loaded.markCounter
      /\ createdIds' = <<>>
      /\ clients' = {}
      /\ readyState' = [c \in Conn |-> CLOSED]
      /\ sent' = Nothing
      /\ lastOp' = [kind |-> "restart"]
      /\ UNCHANGED browserVars
      /\ UNCHANGED <<file, now, failures, lastSnapshot>>

\* Time passes.
Tick ==
  /\ now < MaxTime
  /\ now' = now + 1
  /\ sent' = Nothing
  /\ lastOp' = [kind |-> "tick"]
  /\ UNCHANGED browserVars
  /\ UNCHANGED <<positionVars, registryVars, hubVars>>

Next ==
  \/ \E c \in Conn : Connect(c)
  \/ \E c \in Conn : TransportClosing(c)
  \/ \E c \in Conn : OnClose(c)
  \/ \E body \in Fixes : Ingest(body)
  \/ \E body \in MarkBodies, outcome \in WriteOutcomes : Create(body, outcome)
  \/ \E id \in 1..MaxCounter, outcome \in WriteOutcomes : Delete(id, outcome)
  \/ \E id \in 1..MaxCounter, label \in UpdateLabels, outcome \in WriteOutcomes :
       Update(id, label, outcome)
  \/ \E outcome \in WriteOutcomes : ClearAll(outcome)
  \/ Restart
  \/ Tick

Spec == Init /\ [][Next]_vars

\* The position store with its observers: no mark request arrives.
NextPosition ==
  \/ \E c \in Conn : Connect(c)
  \/ \E c \in Conn : TransportClosing(c)
  \/ \E c \in Conn : OnClose(c)
  \/ \E body \in Fixes : Ingest(body)
  \/ Restart
  \/ Tick

SpecPosition == Init /\ [][NextPosition]_vars

\* The mark registry with its observers: no position report arrives.
NextMarks ==
  \/ \E c \in Conn : Connect(c)
  \/ \E c \in Conn : TransportClosing(c)
  \/ \E c \in Conn : OnClose(c)
  \/ \E body \in MarkBodies, outcome \in WriteOutcomes : Create(body, outcome)
  \/ \E id \in 1..MaxCounter, outcome \in WriteOutcomes : Delete(id, outcome)
  \/ \E id \in 1..MaxCounter, label \in UpdateLabels, outcome \in WriteOutcomes :
       Update(id, label, outcome)
  \/ \E outcome \in WriteOutcomes : ClearAll(outcome)
  \/ Restart

SpecMarks == Init /\ [][NextMarks]_vars


\* The two stores with observers whose transport can fail during a send.
NextTransport ==
  \/ \E c \in Conn : Connect(c)
  \/ \E c \in Conn : TransportClosing(c)
  \/ \E c \in Conn : OnClose(c)
  \/ \E body \in Fixes, failing \in SUBSET Conn : IngestSending(body, failing)
  \/ \E body \in MarkBodies, failing \in SUBSET Conn :
       CreateSending(body, "ok", failing)

SpecTransport == Init /\ [][NextTransport]_vars

\* The two stores together: position reports, mark requests whose write
\* succeeds, and observers that connect and leave.
NextServer ==
  \/ \E c \in Conn : Connect(c)
  \/ \E c \in Conn : OnClose(c)
  \/ \E body \in Fixes : Ingest(body)
  \/ \E body \in MarkBodies : Create(body, "ok")
  \/ \E id \in 1..MaxCounter : Delete(id, "ok")
  \/ \E id \in 1..MaxCounter, label \in UpdateLabels : Update(id, label, "ok")
  \/ ClearAll("ok")

SpecServer == Init /\ [][NextServer]_vars


(***************************************************************************)
(* The geometry functions applied to every antenna fix and heading.        *)
(***************************************************************************)
InitGeometry ==
  /\ InitServer
  /\ InitDashboard
  /\ InitStatus
  /\ pose \in [latitude : Latitudes, longitude : Longitudes, heading : Headings]
  /\ world = NoWorld
  /\ features = NoFeatures

Transform(localX, localY) ==
  /\ world' = [local |-> <<localX, localY>>,
               coords |-> localToWorld(localX, localY, pose.latitude,
                                       pose.longitude, pose.heading)]
  /\ lastOp' = [kind |-> "transform"]
  /\ UNCHANGED <<serverVars, dashVars, statusVars, pose, features>>

\* updateDredgePosition(): the four polygons set as the data of the map
\* sources dredge-hull, dredge-nozzle, dredge-suction-tip, dredge-tailings.
updateDredgePosition ==
  /\ features' = << generateDredgeGeoJSON(pose.latitude, pose.longitude, pose.heading),
                    generateNozzleGeoJSON(pose.latitude, pose.longitude, pose.heading),
                    generateSuctionTipGeoJSON(pose.latitude, pose.longitude, pose.heading),
                    generateTailingsZoneGeoJSON(pose.latitude, pose.longitude, pose.heading) >>
  /\ lastOp' = [kind |-> "updateDredgePosition"]
  /\ UNCHANGED <<serverVars, dashVars, statusVars, pose, world>>

NextGeometry ==
  \/ \E p \in LocalPoints : Transform(p[1], p[2])
  \/ updateDredgePosition

SpecGeometry == InitGeometry /\ [][NextGeometry]_vars


(***************************************************************************)
(* The dashboard page: position events, the controls, the debounced save   *)
(* of the trails, a reload of the page.                                    *)
(***************************************************************************)
\* Variant: the carrier solution of the event is not looked at.
OnMessage_anyCarrier(data) ==
  LET hasPosition == data.latitude # Null /\ data.longitude # Null
      prevPos == currentPosition
      cur == IF locationMode = "live"
               THEN [latitude |-> data.latitude, longitude |-> data.longitude]
               ELSE currentPosition
      records == hasPosition /\ locationMode = "live"
      recorded == IF records THEN recordTrailPoint(trails, cur, prevPos, heading)
                             ELSE trails
  IN  /\ Len(trails.piloting) < MaxTrail
      /\ currentPosition' = IF hasPosition THEN cur ELSE currentPosition
      /\ trails' = recorded
      /\ saveTimeout' = (saveTimeout \/ recorded # trails)
      /\ saveTimers' = IF recorded # trails
                         THEN saveTrailsToStorage(saveTimers, saveTimeout)
                         ELSE saveTimers
      /\ unsavedAge' = IF recorded # trails /\ unsavedAge = -1 THEN 0
                                                                ELSE unsavedAge
      /\ lastOp' = [kind |-> "message", data |-> data, prevPos |-> prevPos]
      /\ UNCHANGED <<heading, locationMode, testPosition, storage, sinceWrite>>
      /\ UNCHANGED <<serverVars, geometryVars, statusVars>>

\* ws.onmessage with a 'position' message: updateDashboard(message.data)
OnMessage(data) ==
  LET hasPosition == data.latitude # Null /\ data.longitude # Null
      prevPos == currentPosition
      cur == IF locationMode = "live"
               THEN [latitude |-> data.latitude, longitude |-> data.longitude]
               ELSE currentPosition
      records == hasPosition /\ data.carr_soln = Num(2) /\ locationMode = "live"
      recorded == IF records THEN recordTrailPoint(trails, cur, prevPos, heading)
                             ELSE trails
  IN  /\ Len(trails.piloting) < MaxTrail
      /\ currentPosition' = IF hasPosition THEN cur ELSE currentPosition
      /\ trails' = recorded
      /\ saveTimeout' = (saveTimeout \/ recorded # trails)
      /\ saveTimers' = IF recorded # trails
                         THEN saveTrailsToStorage(saveTimers, saveTimeout)
                         ELSE saveTimers
      /\ unsavedAge' = IF recorded # trails /\ unsavedAge = -1 THEN 0
                                                                ELSE unsavedAge
      /\ lastOp' = [kind |-> "message", data |-> data, prevPos |-> prevPos]
      /\ UNCHANGED <<heading, locationMode, testPosition, storage, sinceWrite>>
      /\ UNCHANGED <<serverVars, geometryVars, statusVars>>

\* The callback of the timer set by saveTrailsToStorage()
SaveTimer ==
  /\ saveTimers # <<>>
  /\ Head(saveTimers) = 0
  /\ storage' = Item(trails)
  /\ saveTimeout' = FALSE
  /\ saveTimers' = Tail(saveTimers)
  /\ unsavedAge' = -1
  /\ sinceWrite' = 0
  /\ lastOp' = [kind |-> "save", sinceWrite |-> sinceWrite]
  /\ UNCHANGED <<currentPosition, heading, locationMode, testPosition, trails>>
  /\ UNCHANGED <<serverVars, geometryVars, statusVars>>

\* clearTrails(), confirmed by the user
ClearTrails ==
  /\ trails' = NoTrails
  /\ storage' = NoItem
  /\ unsavedAge' = -1
  /\ lastOp' = [kind |-> "clearTrails"]
  /\ UNCHANGED <<currentPosition, heading, locationMode, testPosition,
                 saveTimeout, saveTimers, sinceWrite>>
  /\ UNCHANGED <<serverVars, geometryVars, statusVars>>

\* The 'input' listener of the heading slider
SetHeading(h) ==
  /\ h # heading
  /\ heading' = h
  /\ lastOp' = [kind |-> "heading"]
  /\ UNCHANGED <<currentPosition, locationMode, testPosition, trails, storage,
                 saveTimeout, saveVars>>
  /\ UNCHANGED <<serverVars, geometryVars, statusVars>>

\* The 'change' listener of the location-mode select
SetLocationMode(mode) ==
  /\ mode # locationMode
  /\ locationMode' = mode
  /\ testPosition' = IF mode = "nome" THEN NomePosition ELSE NoPosition
  /\ currentPosition' = IF mode = "nome" THEN NomePosition ELSE currentPosition
  /\ lastOp' = [kind |-> "mode"]
  /\ UNCHANGED <<heading, trails, storage, saveTimeout, saveVars>>
  /\ UNCHANGED <<serverVars, geometryVars, statusVars>>

\* The page is loaded again: the constructor, then init() with
\* loadTrailsFromStorage(); a pending timer is gone with the old page.
Reload ==
  /\ currentPosition' = NoPosition
  /\ heading' = 0
  /\ locationMode' = "live"
  /\ testPosition' = NoPosition
  /\ trails' = loadTrailsFromStorage(storage)
  /\ saveTimeout' = FALSE
  /\ saveTimers' = <<>>
  /\ unsavedAge' = -1
  /\ lastOp' = [kind |-> "reload"]
  /\ UNCHANGED <<storage, sinceWrite>>
  /\ UNCHANGED <<serverVars, geometryVars, statusVars>>

\* One second passes on the page.  A timer whose delay is over runs its
\* callback before more time passes.
Elapse ==
  /\ \A i \in 1..Len(saveTimers) : saveTimers[i] > 0
  /\ saveTimers' = [i \in 1..Len(saveTimers) |-> saveTimers[i] - 1]
  /\ unsavedAge' = IF unsavedAge = -1 \/ unsavedAge > SaveInterval
                     THEN unsavedAge ELSE unsavedAge + 1
  /\ sinceWrite' = IF sinceWrite < SaveInterval THEN sinceWrite + 1
                                                 ELSE sinceWrite
  /\ lastOp' = [kind |-> "elapse"]
  /\ UNCHANGED <<currentPosition, heading, locationMode, testPosition, trails,
                 storage, saveTimeout>>
  /\ UNCHANGED <<serverVars, geometryVars, statusVars>>

NextDashboard ==
  \/ \E data \in PositionEvents : OnMessage(data)
  \/ SaveTimer
  \/ Elapse
  \/ ClearTrails
  \/ \E h \in TrailHeadings : SetHeading(h)
  \/ \E mode \in {"live", "nome"} : SetLocationMode(mode)
  \/ Reload

SpecDashboard == Init /\ [][NextDashboard]_vars


(***************************************************************************)
(* The connection status of the page: its socket, the stale checker, the   *)
(* reconnect timer, and the fixes the server ingests and sends.            *)
(***************************************************************************)
\* this.ws.onopen; the server's connection callback sends the current
\* record when a fix has been ingested.
WsOpen ==
  /\ wsReady = "connecting"
  /\ wsReady' = "open"
  /\ statusLabel' = "Connected"
  /\ inFlight' = IF fixAge # -1 THEN 1 ELSE 0
  /\ lastOp' = [kind |-> "open"]
  /\ UNCHANGED <<lastUpdateAge, fixAge, pollIn, reconnectTimers, orphans>>
  /\ UNCHANGED <<serverVars, geometryVars, dashVars>>

\* POST /api/position on the server: last_update is now, and the record is
\* broadcast to the page when its socket is open.
FixIngested ==
  /\ inFlight = 0
  /\ fixAge' = 0
  /\ inFlight' = IF wsReady = "open" THEN 1 ELSE 0
  /\ lastOp' = [kind |-> "fix"]
  /\ UNCHANGED <<wsReady, statusLabel, lastUpdateAge, pollIn, reconnectTimers,
               orphans>>
  /\ UNCHANGED <<serverVars, geometryVars, dashVars>>

\* this.ws.onmessage with a 'position' message: updateDashboard sets
\* this.lastUpdate first and the status 'Live' last.
OnPosition ==
  /\ wsReady = "open"
  /\ inFlight > 0
  /\ inFlight' = inFlight - 1
  /\ lastUpdateAge' = 0
  /\ statusLabel' = "Live"
  /\ lastOp' = [kind |-> "position", fixAge |-> fixAge]
  /\ UNCHANGED <<wsReady, fixAge, pollIn, reconnectTimers, orphans>>
  /\ UNCHANGED <<serverVars, geometryVars, dashVars>>

\* Variant: the error handler sets a reconnect timer as well.
WsError_reconnects ==
  /\ wsReady \in {"connecting", "open"}
  /\ wsReady' = "failed"
  /\ statusLabel' = "Error"
  /\ reconnectTimers' = Append(reconnectTimers, ReconnectInterval)
  /\ inFlight' = 0
  /\ lastOp' = [kind |-> "error"]
  /\ UNCHANGED <<lastUpdateAge, fixAge, pollIn, orphans>>
  /\ UNCHANGED <<serverVars, geometryVars, dashVars>>

\* this.ws.onerror; the close event of the socket follows.
WsError ==
  /\ wsReady \in {"connecting", "open"}
  /\ wsReady' = "failed"
  /\ statusLabel' = "Error"
  /\ inFlight' = 0
  /\ lastOp' = [kind |-> "error"]
  /\ UNCHANGED <<lastUpdateAge, fixAge, pollIn, reconnectTimers, orphans>>
  /\ UNCHANGED <<serverVars, geometryVars, dashVars>>

\* this.ws.onclose
WsClose ==
  /\ wsReady \in {"connecting", "open", "failed"}
  /\ wsReady' = "closed"
  /\ statusLabel' = "Disconnected"
  /\ reconnectTimers' = Append(reconnectTimers, ReconnectInterval)
  /\ inFlight' = 0
  /\ lastOp' = [kind |-> "wsclose"]
  /\ UNCHANGED <<lastUpdateAge, fixAge, pollIn, orphans>>
  /\ UNCHANGED <<serverVars, geometryVars, dashVars>>

\* The callback of the reconnect timer: connectWebSocket()
Reconnect ==
  /\ reconnectTimers # <<>>
  /\ Head(reconnectTimers) = 0
  /\ reconnectTimers' = Tail(reconnectTimers)
  /\ wsReady' = "connecting"
  /\ orphans' = IF wsReady \in {"connecting", "open"} THEN orphans + 1 ELSE orphans
  /\ lastOp' = [kind |-> "reconnect"]
  /\ UNCHANGED <<statusLabel, lastUpdateAge, fixAge, pollIn, inFlight>>
  /\ UNCHANGED <<serverVars, geometryVars, dashVars>>

\* The callback of the interval set by startStaleChecker()
StalePoll ==
  /\ pollIn = 0
  /\ pollIn' = PollPeriod
  /\ statusLabel' = IF IsStale(lastUpdateAge) THEN "Stale" ELSE statusLabel
  /\ lastOp' = [kind |-> "poll"]
  /\ UNCHANGED <<wsReady, lastUpdateAge, fixAge, reconnectTimers, inFlight,
               orphans>>
  /\ UNCHANGED <<serverVars, geometryVars, dashVars>>

\* One second passes.  Callbacks that are due, a message on its way and the
\* close event after an error come first.
ElapseStatus ==
  /\ pollIn > 0
  /\ \A i \in 1..Len(reconnectTimers) : reconnectTimers[i] > 0
  /\ inFlight = 0
  /\ wsReady # "failed"
  /\ pollIn' = pollIn - 1
  /\ reconnectTimers' = [i \in 1..Len(reconnectTimers) |-> reconnectTimers[i] - 1]
  /\ lastUpdateAge' = Older(lastUpdateAge)
  /\ fixAge' = Older(fixAge)
  /\ lastOp' = [kind |-> "elapse"]
  /\ UNCHANGED <<wsReady, statusLabel, inFlight, orphans>>
  /\ UNCHANGED <<serverVars, geometryVars, dashVars>>

NextStatus ==
  \/ WsOpen
  \/ FixIngested
  \/ OnPosition
  \/ WsError
  \/ WsClose
  \/ Reconnect
  \/ StalePoll
  \/ ElapseStatus

SpecStatus == Init /\ [][NextStatus]_vars

\* The page with its clock running: time passes, and a timer or interval
\* callback that is due is run by the event loop.
SpecReconnect ==
  /\ SpecStatus
  /\ WF_vars(ElapseStatus)
  /\ WF_vars(StalePoll)
  /\ WF_vars(Reconnect)


(***************************************************************************)
(* Properties.                                                             *)
(***************************************************************************)
MarkKinds == {"create", "delete", "update", "clear"}

OpenClients == {c \in clients : readyState[c] = OPEN}

\* The last step was an Ingest or a mark request that changed the registry.
Performed ==
  /\ lastOp.kind \in MarkKinds \cup {"ingest"}
  /\ lastOp.status \notin {400, 404}

\* C1: an Ingest or a mark mutation performed while N observers are open
\* delivers exactly one event, of that operation, to each of them.
C1_FanOutExactlyOnce ==
  Performed =>
    \A c \in OpenClients :
       /\ Len(sent[c]) = 1
       /\ sent[c][1].type = (IF lastOp.kind = "ingest" THEN "position" ELSE "mark")

\* C2: without a ClearAll in between, every created mark gets an id strictly
\* greater than the ids of all marks created before it, deleted or not.
C2_IdsStrictlyIncrease ==
  \A i, j \in 1..Len(createdIds) : i < j => createdIds[i] < createdIds[j]

\* A mark was created after an earlier one had been created and deleted.
C2_Witness ==
  /\ lastOp.kind = "create"
  /\ Len(createdIds) >= 2
  /\ \E i \in 1..Len(createdIds) :
        \A k \in 1..Len(marks) : marks[k].id # createdIds[i]

\* C3: ClearAll empties the collection, sets the counter to zero and answers
\* with the number of marks it removed; the Create that follows gets id 1.
C3_ClearAllResets ==
  [][ /\ lastOp'.kind = "clear" =>
           /\ marks' = <<>>
           /\ markCounter' = 0
           /\ lastOp'.deleted = Len(marks)
      /\ (lastOp.kind = "clear" /\ lastOp'.kind = "create" /\ lastOp'.status # 400) =>
           lastOp'.mark.id = 1 ]_vars

\* A Create right after a ClearAll that removed marks.
C3_Witness ==
  /\ lastOp.kind = "create"
  /\ lastOp.status = 200
  /\ lastOp.clearedBefore >= 1
  /\ Len(marks) = 1

\* C4: a Create without latitude or without longitude is answered 400 and
\* leaves collection, counter and file as they were; nothing is broadcast.
C4_MissingCoordinateRejected ==
  [][ (/\ lastOp'.kind = "create"
       /\ (lastOp'.body.latitude = Undef \/ lastOp'.body.longitude = Undef)) =>
        /\ lastOp'.status = 400
        /\ marks' = marks
        /\ markCounter' = markCounter
        /\ file' = file
        /\ \A c \in Conn : Len(sent'[c]) = 0 ]_vars

\* A rejected Create on a registry that holds marks, with an observer open.
C4_Witness ==
  /\ lastOp.kind = "create"
  /\ lastOp.status = 400
  /\ lastOp.body.longitude = Undef
  /\ Len(marks) >= 1
  /\ OpenClients # {}

\* C5: Delete and Update of an id that no mark has are answered 404 and leave
\* collection, counter and file as they were; nothing is broadcast.
C5_UnknownIdRejected ==
  [][ (/\ lastOp'.kind \in {"delete", "update"}
       /\ \A i \in 1..Len(marks) : marks[i].id # lastOp'.id) =>
        /\ lastOp'.status = 404
        /\ marks' = marks
        /\ markCounter' = markCounter
        /\ file' = file
        /\ \A c \in Conn : Len(sent'[c]) = 0 ]_vars

\* An Update of a deleted id while another mark is left and an observer open.
C5_Witness ==
  /\ lastOp.kind = "update"
  /\ lastOp.status = 404
  /\ Len(marks) >= 1
  /\ lastOp.id < markCounter
  /\ OpenClients # {}

\* C6: when a mark event is emitted and the write succeeded, marks.json
\* already holds the collection and the counter as the mutation left them.
C6_DurableBeforeBroadcast ==
  (lastOp.kind \in MarkKinds /\ lastOp.emitted /\ lastOp.outcome = "ok") =>
    /\ lastOp.fileAtEmit.state = "written"
    /\ lastOp.fileAtEmit.marks = marks
    /\ lastOp.fileAtEmit.markCounter = markCounter

\* A Delete whose event reached an observer after an earlier write had failed.
C6_Witness ==
  /\ lastOp.kind = "delete"
  /\ lastOp.emitted
  /\ lastOp.outcome = "ok"
  /\ failures >= 1
  /\ Len(marks) >= 1
  /\ \E c \in OpenClients : Len(sent[c]) = 1

\* C7: a new connection is sent a position event with the current state if
\* and only if a fix has been ingested since the process started.
C7_SnapshotIffIngested ==
  lastOp.kind = "connect" =>
    LET got == {i \in 1..Len(sent[lastOp.conn]) :
                  sent[lastOp.conn][i].type = "position"}
    IN  /\ everIngested <=> got # {}
        /\ \A i \in got : sent[lastOp.conn][i].data = Current

\* C8: a new connection is sent exactly one marks message, which carries the
\* whole collection, also when the collection is empty.
C8_MarksOnConnect ==
  lastOp.kind = "connect" =>
    LET got == {i \in 1..Len(sent[lastOp.conn]) :
                  sent[lastOp.conn][i].type = "marks"}
    IN  /\ Cardinality(got) = 1
        /\ \A i \in got : sent[lastOp.conn][i].data = marks

\* C9: every Ingest is answered with success and replaces the whole record:
\* each field is the one of this fix, absent ones included, the derived
\* fields are those of this fix and last_update is the current time.
C9_LastWriteWins ==
  lastOp.kind = "ingest" =>
    /\ lastOp.status = 200
    /\ \A f \in CopiedFields : roverState[f] = lastOp.body[f]
    /\ roverState.timestamp =
         Timestamp(lastOp.body.hour, lastOp.body.min, lastOp.body.sec)
    /\ roverState.fixed_rate =
         FixedRate(lastOp.body.fixed_count, lastOp.body.float_count)
    /\ roverState.last_update = ISOString(now)
    /\ \A f \in CopiedFields :
         IF lastOp.body[f] = Undef
           THEN f \notin DOMAIN Current
           ELSE Current[f] = lastOp.body[f]

\* A fix with an earlier time of day and absent fields replaced a later,
\* complete one, at a later clock time.
C9_Witness ==
  /\ lastOp.kind = "ingest"
  /\ lastOp.replaced.timestamp = Str("02:00:00 UTC")
  /\ roverState.timestamp = Str("00:00:00 UTC")
  /\ lastOp.replaced.last_update # roverState.last_update
  /\ IsNumber(lastOp.replaced.altitude)
  /\ lastOp.body.altitude = Undef

\* C10: a numeric field that is absent or null in the fix is unknown in the
\* state and in the position event, never zero, and the fix is accepted.
C10_UnknownStaysUnknown ==
  lastOp.kind = "ingest" =>
    /\ lastOp.status = 200
    /\ \A f \in NumericFields :
         lastOp.body[f] \in {Null, Undef} =>
           /\ roverState[f] \in {Null, Undef}
           /\ \A c \in OpenClients :
                /\ Len(sent[c]) = 1
                /\ (f \notin DOMAIN sent[c][1].data \/ sent[c][1].data[f] = Null)

\* A fix with null and one with absent numeric fields reached an observer.
C10_Witness ==
  /\ lastOp.kind = "ingest"
  /\ lastOp.body.latitude = Undef
  /\ lastOp.replaced.latitude = Null
  /\ lastOp.replaced.timestamp # Null
  /\ \E c \in OpenClients : Len(sent[c]) = 1

\* C11: after an Ingest whose counts are non-negative numbers, fixed_rate is
\* the number 0 when fixed_count + float_count is zero, and otherwise the
\* one-decimal rendering nearest to 100 * fixed_count / (fixed_count +
\* float_count), which lies between "0.0" and "100.0".
C11_FixedRate ==
  (/\ lastOp.kind = "ingest"
   /\ IsNumber(lastOp.body.fixed_count)
   /\ IsNumber(lastOp.body.float_count)) =>
    LET fixed == lastOp.body.fixed_count.n
        total == fixed + lastOp.body.float_count.n
    IN  IF total = 0
          THEN roverState.fixed_rate = Num(0)
          ELSE \E tenths \in 0..1000 :
                 /\ roverState.fixed_rate =
                      Str(ToString(tenths \div 10) \o "." \o ToString(tenths % 10))
                 /\ 2 * (1000 * fixed - tenths * total) <= total
                 /\ 2 * (tenths * total - 1000 * fixed) <= total

\* The fix with fixed_count 10 and float_count 0 was ingested: "100.0".
C11_Witness ==
  /\ lastOp.kind = "ingest"
  /\ lastOp.body.fixed_count = Num(10)
  /\ lastOp.body.float_count = Num(0)
  /\ roverState.fixed_rate = Str("100.0")
  /\ roverState.timestamp = Str("01:00:00 UTC")

\* C17: a Create whose latitude and longitude are numbers answers 200 with a
\* mark that is also the new last element of the collection; the id of that
\* mark is the counter before the request plus one, which becomes the
\* counter; its label is the label of the request, or "RM_<id>" with that
\* id when the request has none; on a registry whose counter is 0 and that
\* holds no mark the mark gets id 1 and, without a label, the label "RM_1".
C17_CreateAssignsNextId ==
  [][(/\ lastOp'.kind = "create"
      /\ IsNumber(lastOp'.body.latitude)
      /\ IsNumber(lastOp'.body.longitude)) =>
       /\ lastOp'.status = 200
       /\ marks' = Append(marks, lastOp'.mark)
       /\ lastOp'.mark.id = markCounter + 1
       /\ markCounter' = markCounter + 1
       /\ lastOp'.mark.label =
            IF lastOp'.body.label = Undef
              THEN Str("RM_" \o ToString(markCounter + 1))
              ELSE lastOp'.body.label
       /\ (markCounter = 0 /\ marks = <<>>) =>
            /\ lastOp'.mark.id = 1
            /\ lastOp'.body.label = Undef => lastOp'.mark.label = Str("RM_1")]_vars

\* A Create without a label was answered with mark 2, "RM_2", while the
\* collection held no other mark: the id came from the counter.
C17_Witness ==
  /\ lastOp.kind = "create"
  /\ lastOp.status = 200
  /\ lastOp.body.label = Undef
  /\ lastOp.mark.id = 2
  /\ lastOp.mark.label = Str("RM_2")
  /\ marks = <<lastOp.mark>>

\* C18: an Update that finds its mark leaves the collection with the same
\* length and order; every other mark is unchanged; the mark found keeps its
\* id, latitude, longitude, h_acc, timestamp and created_at, and its label
\* becomes the label of the request when there is one; the counter is
\* unchanged.
C18_UpdateChangesOnlyLabel ==
  [][(lastOp'.kind = "update" /\ lastOp'.status = 200) =>
       LET index == FindIndex(marks, lastOp'.id)
       IN  /\ index > 0
           /\ Len(marks') = Len(marks)
           /\ \A j \in 1..Len(marks) : j # index => marks'[j] = marks[j]
           /\ \A f \in {"id", "latitude", "longitude", "h_acc", "timestamp",
                        "created_at"} : marks'[index][f] = marks[index][f]
           /\ marks'[index].label =
                IF lastOp'.label = Undef THEN marks[index].label
                                         ELSE lastOp'.label
           /\ markCounter' = markCounter]_vars

\* Mark 1 of two marks was renamed to "BENCH_B": it is still the first one,
\* with its h_acc, and mark 2 has its default label.
C18_Witness ==
  /\ lastOp.kind = "update"
  /\ lastOp.status = 200
  /\ lastOp.id = 1
  /\ Len(marks) = 2
  /\ marks[1].id = 1
  /\ marks[1].label = Str("BENCH_B")
  /\ marks[1].h_acc = Num(14)
  /\ marks[2].label = Str("RM_2")
  /\ markCounter = 2

\* C19: after a Create that appended a mark to the collection, a create
\* event carrying that mark has been emitted and every open observer has
\* received it.
C19_CreateAlwaysBroadcasts ==
  (/\ lastOp.kind = "create"
   /\ lastOp.status # 400
   /\ Len(marks) > 0
   /\ marks[Len(marks)] = lastOp.mark) =>
     /\ lastOp.emitted
     /\ \A c \in OpenClients : sent[c] = <<MarkEvent("create", lastOp.mark)>>

\* C20: after an Ingest, a socket that is in the set but not OPEN has been
\* sent nothing, every OPEN socket has been sent the position event and the
\* request was answered 200; in every state, a socket that is no longer in
\* the set has been sent nothing by the last step.
C20_NotOpenIsSkipped ==
  /\ \A c \in Conn \ clients : sent[c] = <<>>
  /\ (lastOp.kind = "ingest" /\ ~PositionLogThrows(lastOp.body)) =>
       /\ lastOp.status = 200
       /\ \A c \in clients :
            sent[c] = IF readyState[c] = OPEN
                        THEN <<PositionMessage(roverState)>>
                        ELSE <<>>

\* An Ingest ran while one socket of the set was CLOSING and another OPEN.
C20_Witness ==
  /\ lastOp.kind = "ingest"
  /\ lastOp.status = 200
  /\ \E c \in clients : readyState[c] = CLOSING /\ sent[c] = <<>>
  /\ \E c \in clients : readyState[c] = OPEN /\ Len(sent[c]) = 1

C16_AntennaMapsOntoFix ==
  world.local = <<DREDGE_CONFIG.antenna.x, DREDGE_CONFIG.antenna.y>> =>
    world.coords = <<pose.longitude, pose.latitude>>

\* The antenna point was transformed for the fix at Nome's longitude with
\* the bow at 45 degrees.
C16_Witness ==
  /\ world.local = <<DREDGE_CONFIG.antenna.x, DREDGE_CONFIG.antenna.y>>
  /\ pose = [latitude |-> 64495000, longitude |-> -165402452, heading |-> 45]
  /\ world.coords = <<-165402452, 64495000>>

\* The last element of a non-empty sequence.
Last(seq) == seq[Len(seq)]

\* C12: whenever a position event appends a point to a piloting trail that
\* is not empty, the point is at least minTrailDistance away from the point
\* appended before it.
C12_AppendedOnlyIfFarFromLastAppended ==
  [][(/\ lastOp'.kind = "message"
      /\ Len(trails.piloting) > 0
      /\ Len(trails'.piloting) > Len(trails.piloting)) =>
       haversineDistance(Last(trails.piloting)[2], Last(trails.piloting)[1],
                         Last(trails'.piloting)[2], Last(trails'.piloting)[1])
         >= minTrailDistance]_vars

\* C13: whenever a position event with carr_soln = 2 arrives in live mode
\* while the piloting trail is not empty, and its position is at least
\* minTrailDistance away from the last point of the trail, the position is
\* appended to the trail.
C13_FarFixIsAdmitted ==
  [][(/\ lastOp'.kind = "message"
      /\ lastOp'.data.carr_soln = Num(2)
      /\ lastOp'.data.latitude # Null
      /\ locationMode = "live"
      /\ Len(trails.piloting) > 0
      /\ haversineDistance(Last(trails.piloting)[2], Last(trails.piloting)[1],
                           lastOp'.data.latitude.n, lastOp'.data.longitude.n)
           >= minTrailDistance) =>
       trails'.piloting =
         Append(trails.piloting,
                <<lastOp'.data.longitude.n, lastOp'.data.latitude.n>>)]_vars

\* C14: in every state the three trails have the same length, and a position
\* event either appends exactly one element to each of them or leaves all
\* three as they are.
SameLength(tr) ==
  /\ Len(tr.piloting) = Len(tr.suction)
  /\ Len(tr.suction) = Len(tr.tailings)

C14_TrailsAdvanceTogether ==
  /\ []SameLength(trails)
  /\ [][lastOp'.kind = "message" =>
          \/ trails' = trails
          \/ /\ Len(trails'.piloting) = Len(trails.piloting) + 1
             /\ Len(trails'.suction) = Len(trails.suction) + 1
             /\ Len(trails'.tailings) = Len(trails.tailings) + 1
             /\ \A i \in 1..Len(trails.piloting) :
                  /\ trails'.piloting[i] = trails.piloting[i]
                  /\ trails'.suction[i] = trails.suction[i]
                  /\ trails'.tailings[i] = trails.tailings[i]]_vars

\* A second point was admitted, and the page was loaded again from the
\* stored trails: each trail has two elements.
C14_Witness ==
  /\ lastOp.kind = "reload"
  /\ Len(trails.piloting) = 2
  /\ Len(trails.suction) = 2
  /\ Len(trails.tailings) = 2
  /\ storage = Item(trails)

\* C21: a connection callback adds exactly its socket to the Set, a close
\* callback removes exactly its socket, and no other step changes the Set;
\* an Ingest or a Create, also one with failed or skipped sends, changes the
\* readyState of no socket.
C21_SetChangesOnlyOnConnectAndClose ==
  [][/\ lastOp'.kind = "connect" => clients' = clients \cup {lastOp'.conn}
     /\ lastOp'.kind = "close" => clients' = clients \ {lastOp'.conn}
     /\ lastOp'.kind \notin {"connect", "close"} => clients' = clients
     /\ lastOp'.kind \in {"ingest", "create"} => readyState' = readyState]_vars

\* An Ingest was broadcast while socket 2 was closing and the send to socket
\* 1 failed: both are still in the Set.
C21_Witness ==
  /\ lastOp.kind = "ingest"
  /\ lastOp.failing = {1}
  /\ readyState[2] = CLOSING
  /\ clients = {1, 2}

\* C26: after a mark mutation whose write of marks.json failed, the request
\* was answered 200, its event was emitted and delivered to every open
\* observer, and the registry holds the effect of the mutation: the new mark
\* and its counter, the mark gone, the mark as updated, or nothing at all.
C26_WriteFailureOnlyLogged ==
  (/\ lastOp.kind \in MarkKinds
   /\ lastOp.status \notin {400, 404}
   /\ lastOp.outcome # "ok") =>
     /\ lastOp.status = 200
     /\ lastOp.emitted
     /\ \A c \in OpenClients : Len(sent[c]) = 1 /\ sent[c][1].type = "mark"
     /\ CASE lastOp.kind = "create" ->
               /\ Len(marks) > 0
               /\ Last(marks) = lastOp.mark
               /\ markCounter = lastOp.mark.id
          [] lastOp.kind = "delete" -> FindIndex(marks, lastOp.id) = 0
          [] lastOp.kind = "update" ->
               /\ FindIndex(marks, lastOp.id) > 0
               /\ marks[FindIndex(marks, lastOp.id)] = lastOp.mark
          [] lastOp.kind = "clear" -> marks = <<>> /\ markCounter = 0

\* C27: right after a restart the collection and the counter are those of
\* the last write of marks.json that succeeded (none of them: no mark,
\* counter 0); and after a mutation whose write succeeded, loading the file
\* gives the collection and the counter the mutation left.
C27_RestartRestoresLastSnapshot ==
  /\ lastOp.kind = "restart" =>
       /\ marks = lastSnapshot.marks
       /\ markCounter = lastSnapshot.markCounter
  /\ (/\ lastOp.kind \in MarkKinds
      /\ lastOp.status \notin {400, 404}
      /\ lastOp.outcome = "ok") =>
       loadMarks(file) = [marks |-> marks, markCounter |-> markCounter]

\* C22: a position event whose carr_soln is not 2, or that arrives while the
\* location mode is not 'live' (the test position is active), leaves the
\* three trails as they are.
C22_OnlyFixedLiveEventsRecord ==
  [][(/\ lastOp'.kind = "message"
      /\ \/ lastOp'.data.carr_soln # Num(2)
         \/ locationMode # "live"
         \/ testPosition # NoPosition) =>
       trails' = trails]_vars

\* A float fix half a metre north of the only trail point has arrived and
\* is the current position; the trail still has that one point.
C22_Witness ==
  /\ lastOp.kind = "message"
  /\ lastOp.data.carr_soln = Num(1)
  /\ lastOp.data.latitude = Num(64495005)
  /\ currentPosition.latitude = Num(64495005)
  /\ trails.piloting = << <<-165402452, 64495000>> >>

\* C23: right after clearTrails() the three trails are empty and the stored
\* item is gone; and from a state with empty trails and no stored item, a
\* step that admits no point leaves no stored item.
C23_ClearedStaysCleared ==
  /\ [](lastOp.kind = "clearTrails" => trails = NoTrails /\ storage = NoItem)
  /\ [][(trails = NoTrails /\ storage = NoItem /\ trails' = NoTrails) =>
          storage' = NoItem]_vars

\* C24: at most one timer of saveTrailsToStorage is pending; a point
\* admitted while one is pending sets no other; and every write of the item
\* comes at least SaveInterval seconds after the write before it.
C24_OneWritePerInterval ==
  /\ [](Len(saveTimers) <= 1)
  /\ [](lastOp.kind = "save" => lastOp.sinceWrite >= SaveInterval)
  /\ [][(lastOp'.kind = "message" /\ saveTimers # <<>>) =>
          saveTimers' = saveTimers]_vars

\* A second point was admitted while the timer set by the first had been
\* running for some seconds: there is still one timer and nothing stored.
C24_Witness ==
  /\ lastOp.kind = "message"
  /\ Len(trails.piloting) = 2
  /\ Len(saveTimers) = 1
  /\ saveTimers[1] < SaveInterval
  /\ unsavedAge > 0
  /\ storage = NoItem

C28_StaleAfterThreshold ==
  (wsReady = "open" /\ inFlight = 0 /\ fixAge > StaleTimeout + PollPeriod) =>
    statusLabel = "Stale"

\* C29: while the socket of the page is not open the status is Disconnected
\* or Error (or the label of the page before its first connection), never
\* Stale; Stale is shown only while the socket is open and no position
\* event has arrived within the threshold.
C29_StaleOnlyWhileConnected ==
  /\ (wsReady # "open" /\ statusLabel # "initial") =>
       statusLabel \in {"Disconnected", "Error"}
  /\ statusLabel = "Stale" => (wsReady = "open" /\ lastUpdateAge > StaleTimeout)

\* C30: every polygon ring drawn for the dredge (hull, nozzle rectangle,
\* suction-tip circle, tailings zone) is closed: its last vertex is identical
\* to its first, for every fix and heading.
C30_RingsClosed ==
  \A f \in 1..Len(features) :
    LET ring == features[f].coordinates
    IN  /\ Len(ring) >= 4
        /\ ring[Len(ring)] = ring[1]

C30_Witness ==
  /\ lastOp.kind = "updateDredgePosition"
  /\ pose = [latitude |-> 64495000, longitude |-> -165402452, heading |-> 45]
  /\ Len(features) = 4
  /\ Len(features[1].coordinates) = 5
  /\ Len(features[3].coordinates) = CirclePoints + 1
  /\ features[3].coordinates[1] # features[3].coordinates[7]
  /\ features[1].coordinates[1] # features[1].coordinates[3]

\* C31: every handler runs to completion before the next one starts, so
\* whatever is observed is a state between two operations: the position
\* record is the initial one or the record of one single fix, and every
\* message delivered by an operation or by a connection callback (position
\* event, marks message, mark event) agrees with the two stores as that
\* operation left them, the counter and the collection changed together.
C31_NoPartialUpdate ==
  /\ \/ roverState = InitialRoverState
     \/ \E b \in Fixes, t \in 0..MaxTime :
          roverState = NewRoverState(InitialRoverState, b, t)
  /\ \A c \in Conn : \A i \in 1..Len(sent[c]) :
       LET m == sent[c][i]
       IN  /\ m.type = "position" => m.data = Current
           /\ m.type = "marks" => m.data = marks
           /\ (m.type = "mark" /\ m.action = "create") =>
                /\ marks # <<>>
                /\ Last(marks) = m.data
                /\ m.data.id = markCounter
           /\ (m.type = "mark" /\ m.action = "delete") =>
                FindIndex(marks, m.data.id) = 0
           /\ (m.type = "mark" /\ m.action = "update") =>
                /\ FindIndex(marks, m.data.id) # 0
                /\ marks[FindIndex(marks, m.data.id)] = m.data
           /\ (m.type = "mark" /\ m.action = "clear") =>
                /\ marks = <<>>
                /\ markCounter = 0

\* A fix replaced an earlier one while two marks were held, and an open
\* observer was sent the position event.
C31_Witness ==
  /\ lastOp.kind = "ingest"
  /\ lastOp.replaced # InitialRoverState
  /\ lastOp.replaced # roverState
  /\ Len(marks) = 2
  /\ \E c \in OpenClients : Len(sent[c]) = 1 /\ sent[c][1].type = "position"

\* C32: in every state no two marks of the collection have the same id, and
\* the id of every mark lies between 1 and the counter; this includes the
\* states after a ClearAll, after a write of marks.json that failed and
\* after a restart that loaded marks.json.
C32_IdsUniqueAndBounded ==
  /\ \A i, j \in 1..Len(marks) : i # j => marks[i].id # marks[j].id
  /\ \A i \in 1..Len(marks) : 1 <= marks[i].id /\ marks[i].id <= markCounter

\* A restart after a failed write loaded a file that holds mark 2 only, with
\* the counter 2.
C32_Witness ==
  /\ lastOp.kind = "restart"
  /\ failures = 1
  /\ Len(marks) = 1
  /\ marks[1].id = 2
  /\ markCounter = 2

\* C33: a new observer is first sent the position snapshot (once a fix has
\* been ingested), and only the marks after it; an observer that is open before and
\* after an Ingest or a mark request that changed a store is sent the event
\* of that operation within the operation, so events arrive in the order of
\* the operations, none is missed and the last position event received is
\* the current record.
C33_EventsInOrderNoneMissed ==
  /\ [](lastOp.kind = "connect" =>
          LET s == sent[lastOp.conn]
          IN  /\ everIngested => (s # <<>> /\ s[1] = PositionMessage(roverState))
              /\ \A i \in 2..Len(s) : s[i] = MarksMessage(marks))
  /\ [][\A c \in Conn :
          (/\ c \in clients /\ readyState[c] = OPEN
           /\ c \in clients' /\ readyState'[c] = OPEN
           /\ lastOp'.kind \in MarkKinds \cup {"ingest"}
           /\ lastOp'.status \notin {400, 404}) =>
             /\ Len(sent'[c]) = 1
             /\ lastOp'.kind = "ingest" => sent'[c][1] = PositionMessage(roverState')
             /\ lastOp'.kind \in MarkKinds => sent'[c][1].type = "mark"]_vars

\* C34: whenever the piloting trail grows without a reload of the page, the
\* step is a position event with carr_soln = 2 received in live mode and
\* exactly one point is appended, the longitude and latitude of that event;
\* no point of the trail is the test position, also when the event is the
\* first one after the mode was switched from test back to live.
C34_OnlyLiveFixesRecorded ==
  /\ [](\A i \in 1..Len(trails.piloting) :
          trails.piloting[i] # <<NomePosition.longitude.n, NomePosition.latitude.n>>)
  /\ [][(Len(trails'.piloting) > Len(trails.piloting) /\ lastOp'.kind # "reload") =>
          /\ lastOp'.kind = "message"
          /\ lastOp'.data.carr_soln = Num(2)
          /\ locationMode = "live"
          /\ locationMode' = "live"
          /\ trails'.piloting =
               Append(trails.piloting,
                      <<lastOp'.data.longitude.n, lastOp'.data.latitude.n>>)]_vars

\* The first event after the switch from test mode back to live mode was
\* recorded: the page held the test position when it arrived.
C34_Witness ==
  /\ lastOp.kind = "message"
  /\ lastOp.prevPos = NomePosition
  /\ locationMode = "live"
  /\ testPosition = NoPosition
  /\ Len(trails.piloting) = 2
  /\ Last(trails.piloting) = <<lastOp.data.longitude.n, lastOp.data.latitude.n>>

\* C35: a close of the socket sets exactly one reconnect timer, of the
\* reconnect interval, and an error event sets none; the timer is pending
\* exactly while the socket is closed, and when it is due connectWebSocket()
\* creates the one new socket, so a closed socket leads to a new attempt
\* and the page never has a second socket that is connecting or open.
C35_OneReconnectPerClose ==
  /\ [](orphans = 0)
  /\ [](wsReady = "closed" <=> Len(reconnectTimers) = 1)
  /\ [](wsReady # "closed" => reconnectTimers = <<>>)
  /\ [][lastOp'.kind = "wsclose" => reconnectTimers' = <<ReconnectInterval>>]_vars
  /\ [][lastOp'.kind = "error" => reconnectTimers' = reconnectTimers]_vars
  /\ [][lastOp'.kind = "reconnect" =>
          /\ wsReady = "closed"
          /\ reconnectTimers = <<0>>
          /\ wsReady' = "connecting"
          /\ reconnectTimers' = <<>>]_vars
  /\ (wsReady = "closed") ~> (wsReady = "connecting")

\* The socket closed after a position event had been received and a new
\* connection attempt was made once the reconnect interval was over.
C35_Witness ==
  /\ lastOp.kind = "reconnect"
  /\ wsReady = "connecting"
  /\ reconnectTimers = <<>>
  /\ statusLabel = "Disconnected"
  /\ lastUpdateAge >= ReconnectInterval
  /\ orphans = 0

====
